---- MODULE Spec2Model ----
(***************************************************************************)
(* Model of backend/main.py of link-downloader: the format reconciler      *)
(* (parse_formats and its labelling helpers), the /api/info orchestrator   *)
(* and the /api/download orchestrator.                                     *)
(*                                                                         *)
(* Conventions.                                                            *)
(*  - A Python string is a sequence of one-character strings wherever the  *)
(*    code looks inside it (format identifiers, selectors); codec and      *)
(*    container tags, which the code only compares or looks up, are TLA+   *)
(*    strings from a fixed vocabulary.                                     *)
(*  - Python None is None (-1) in a numeric field and NoneS in a string    *)
(*    field; an absent key and a key holding None read the same through    *)
(*    dict.get at every use the code makes of them.                        *)
(*  - A label string is the record [k, n]: "<n>p" is [k |-> "p", n |-> n], *)
(*    "4K" is [k |-> "4K", n |-> 2160]; two label strings are equal iff    *)
(*    their records are.                                                   *)
(***************************************************************************)
EXTENDS Integers, Sequences, FiniteSets, TLC

VARIABLES
    raw_formats,   \* parse_formats: the argument
    formats,       \* parse_formats: the returned list
    ppc,           \* parse_formats: "input" before the call, "parsed" after
    height,        \* _height_to_label: the argument
    label,         \* _height_to_label: the returned label
    lpc,           \* _height_to_label: "input" before the call, "labelled" after
    info,          \* /api/info: the request's record
    dl             \* /api/download: the request's record

vars == <<raw_formats, formats, ppc, height, label, lpc, info, dl>>

\* ------------------------------------------------------------- bounds
\* longest raw_formats list drawn
MaxFormats == 3
\* largest height handed to _height_to_label
MaxHeight == 2600

\* ------------------------------------------------------------- Python values
None == -1
NoneS == "None"

Truthy(x) == x # None /\ x # 0
\* Python `a or b` on optional numbers
Or(a, b) == IF Truthy(a) THEN a ELSE b
\* dict.get(key, 0) on an optional number: only an absent key takes the default
Get0(x) == IF x = None THEN 0 ELSE x
Abs(x) == IF x < 0 THEN 0 - x ELSE x
SetMax(S) == CHOOSE m \in S : \A x \in S : x <= m

Digits == {"0", "1", "2", "3", "4", "5", "6", "7", "8", "9"}
DigitVal(c) ==
    CASE c = "0" -> 0 [] c = "1" -> 1 [] c = "2" -> 2 [] c = "3" -> 3
      [] c = "4" -> 4 [] c = "5" -> 5 [] c = "6" -> 6 [] c = "7" -> 7
      [] c = "8" -> 8 [] c = "9" -> 9

RECURSIVE IntOf(_)
\* int(s) of a sequence of digits
IntOf(s) == IF s = <<>> THEN 0 ELSE 10 * IntOf(SubSeq(s, 1, Len(s) - 1)) + DigitVal(s[Len(s)])

EndsWith(s, suf) ==
    /\ Len(s) >= Len(suf)
    /\ SubSeq(s, Len(s) - Len(suf) + 1, Len(s)) = suf

\* ------------------------------------------------------------- labels
QUALITY_HEIGHTS == <<2160, 1440, 1080, 720, 480, 360, 240, 144>>

PLabel(n) == [k |-> "p", n |-> n]
Label4K == [k |-> "4K", n |-> 2160]
LabelUnknown == [k |-> "Unknown", n |-> 0]
LabelAudioOnly == [k |-> "Audio only", n |-> 0]
LabelBest == [k |-> "Best", n |-> 0]

IsTier(h) == \E i \in 1..Len(QUALITY_HEIGHTS) : QUALITY_HEIGHTS[i] = h
\* QUALITY_LABELS[h] for a tier h
QUALITY_LABELS(h) == IF h = 2160 THEN Label4K ELSE PLabel(h)
\* QUALITY_LABELS.get(p, f"{p}p")
QualityLabelsGet(p) == IF IsTier(p) THEN QUALITY_LABELS(p) ELSE PLabel(p)

\* abs(height - qh) / qh <= 0.12; 0.12 * qh is no integer for any tier, so the
\* floating-point comparison and the exact one agree on every integer height
WithinToleranceWide(h, qh) == 100 * Abs(h - qh) <= 12 * h
WithinTolerance(h, qh) == 100 * Abs(h - qh) <= 12 * qh

RECURSIVE ScanTiers(_, _)
\* the for-loop over QUALITY_HEIGHTS from index i: the first tier within tolerance
ScanTiers(h, i) ==
    IF i > Len(QUALITY_HEIGHTS) THEN PLabel(h)
    ELSE IF WithinTolerance(h, QUALITY_HEIGHTS[i]) THEN QUALITY_LABELS(QUALITY_HEIGHTS[i])
    ELSE ScanTiers(h, i + 1)

_height_to_label(h) ==
    IF ~Truthy(h) THEN LabelUnknown
    ELSE IF IsTier(h) THEN QUALITY_LABELS(h)
    ELSE ScanTiers(h, 1)

AllDigits(s, i, n) == \A j \in i..(i + n - 1) : s[j] \in Digits
\* length of the digit run (\d{3,4})p matches at position i, greedy; 0 when none
MatchAt(s, i) ==
    IF i + 4 <= Len(s) /\ AllDigits(s, i, 4) /\ s[i + 4] = "p" THEN 4
    ELSE IF i + 3 <= Len(s) /\ AllDigits(s, i, 3) /\ s[i + 3] = "p" THEN 3
    ELSE 0

\* re.search(r"(\d{3,4})p", format_id): the leftmost match; NoLabel when none
NoLabel == [k |-> "None", n |-> 0]
_label_from_format_id(format_id) ==
    LET starts == {i \in 1..Len(format_id) : MatchAt(format_id, i) > 0}
    IN  IF starts = {} THEN NoLabel
        ELSE LET i == CHOOSE x \in starts : \A y \in starts : x <= y
                 p == IntOf(SubSeq(format_id, i, i + MatchAt(format_id, i) - 1))
             IN  QualityLabelsGet(p)

_codec_priority(f) ==
    LET vc == f.vcodec
    IN  IF vc \in {"h264", "avc1"} THEN 3
        ELSE IF vc \in {"vp9", "vp8"} THEN 2
        ELSE IF vc \in {"av01", "av1"} THEN 1
        ELSE 0

\* ------------------------------------------------------------- parse_formats
\* f.get(codec) not in ("none", None)
HasCodec(c) == c \notin {"none", NoneS}

IsVideoOnly(f) == HasCodec(f.vcodec) /\ ~HasCodec(f.acodec) /\ Truthy(f.height)
IsAudioOnly(f) ==
    /\ ~HasCodec(f.vcodec)
    /\ ~Truthy(f.height)
    /\ (HasCodec(f.acodec) \/ Or(f.abr, 0) > 0)
IsCombinedExplicit(f) == HasCodec(f.vcodec) /\ HasCodec(f.acodec) /\ Truthy(f.height)
IsCombinedMuxedSentinel(f) == ~HasCodec(f.vcodec) /\ ~HasCodec(f.acodec) /\ Truthy(f.height)
IsCombinedMuxed(f) == f.vcodec = NoneS /\ f.acodec = NoneS /\ Truthy(f.height)

video_only(raw) == SelectSeq(raw, IsVideoOnly)
audio_only(raw) == SelectSeq(raw, IsAudioOnly)
combined(raw) == SelectSeq(raw, IsCombinedExplicit) \o SelectSeq(raw, IsCombinedMuxed)

\* max((f.get("height", 0) for f in fs), default=0)
MaxHeightOf(fs) ==
    IF fs = <<>> THEN 0 ELSE SetMax({Get0(fs[i].height) : i \in 1..Len(fs)})

use_dash(raw) ==
    /\ video_only(raw) # <<>>
    /\ audio_only(raw) # <<>>
    /\ (combined(raw) = <<>> \/ MaxHeightOf(video_only(raw)) > MaxHeightOf(combined(raw)))

SelBest == <<"b", "e", "s", "t">>
SelBestAudioM4a == <<"b", "e", "s", "t", "a", "u", "d", "i", "o", "[", "e", "x", "t", "=", "m", "4", "a", "]", "/", "b", "e", "s", "t", "a", "u", "d", "i", "o">>
SelBestAudio == <<"b", "e", "s", "t", "a", "u", "d", "i", "o", "/", "b", "e", "s", "t">>

Fallback == [id |-> SelBest, ext |-> "mp4", quality |-> LabelBest, filesize |-> None]

\* a.get("abr") or a.get("tbr") or 0
AudioKey(a) == Or(a.abr, Or(a.tbr, 0))
\* f.get("tbr") or f.get("vbr") or 0
VideoKey(f) == Or(f.tbr, Or(f.vbr, 0))
\* f.get("filesize") or f.get("filesize_approx") or 0
SizeOf(f) == Or(f.filesize, Or(f.filesize_approx, 0))
\* x if x > 0 else None
PositiveOrNone(x) == IF x > 0 THEN x ELSE None
\* total if total > 0 else None, with total = vid_size + audio_size
SplitFilesize(vid_size, audio_size) == PositiveOrNone(vid_size + audio_size)

\* max(pool, key=AudioKey): the first element with the largest key
BestAudio(pool) ==
    LET top == SetMax({AudioKey(pool[i]) : i \in 1..Len(pool)})
        i == CHOOSE x \in 1..Len(pool) :
                 /\ AudioKey(pool[x]) = top
                 /\ \A y \in 1..(x - 1) : AudioKey(pool[y]) # top
    IN  pool[i]

IsM4a(a) == a.ext = "m4a"

RECURSIVE GroupVideo(_, _)
\* the loop filling vid_by_height: prefer mp4, then the higher bitrate
GroupVideo(fs, acc) ==
    IF fs = <<>> THEN acc
    ELSE LET f == Head(fs)
             h == Get0(f.height)
         IN  IF ~Truthy(h) THEN GroupVideo(Tail(fs), acc)
             ELSE IF h \notin DOMAIN acc THEN GroupVideo(Tail(fs), acc @@ (h :> f))
             ELSE LET prev == acc[h]
                      f_mp4 == f.ext = "mp4"
                      p_mp4 == prev.ext = "mp4"
                      take == \/ f_mp4 /\ ~p_mp4
                              \/ f_mp4 = p_mp4 /\ VideoKey(f) > VideoKey(prev)
                  IN  GroupVideo(Tail(fs), IF take THEN [acc EXCEPT ![h] = f] ELSE acc)

RECURSIVE SortedDesc(_)
\* sorted(keys, reverse=True)
SortedDesc(S) ==
    IF S = {} THEN <<>>
    ELSE LET m == SetMax(S) IN <<m>> \o SortedDesc(S \ {m})

EmptyMap == [x \in {} |-> x]

RECURSIVE EmitSplit(_, _, _, _, _)
\* the loop over sorted(vid_by_height.keys(), reverse=True) on the split path
EmitSplit(hs, by_h, best_audio, seen, out) ==
    IF hs = <<>> THEN out
    ELSE LET h == Head(hs)
             best_vid == by_h[h]
             fmt_id == best_vid.format_id \o <<"+">> \o best_audio.format_id
         IN  IF fmt_id \in seen THEN EmitSplit(Tail(hs), by_h, best_audio, seen, out)
             ELSE EmitSplit(Tail(hs), by_h, best_audio, seen \cup {fmt_id},
                      Append(out, [id |-> fmt_id,
                                   ext |-> "mp4",
                                   quality |-> _height_to_label(h),
                                   filesize |-> SplitFilesize(SizeOf(best_vid), SizeOf(best_audio))]))

SplitPath(raw) ==
    LET m4a_streams == SelectSeq(audio_only(raw), IsM4a)
        audio_pool == IF m4a_streams # <<>> THEN m4a_streams ELSE audio_only(raw)
        best_audio == BestAudio(audio_pool)
        vid_by_height == GroupVideo(video_only(raw), EmptyMap)
    IN  Append(EmitSplit(SortedDesc(DOMAIN vid_by_height), vid_by_height, best_audio, {}, <<>>),
               [id |-> SelBestAudioM4a,
                ext |-> "mp3",
                quality |-> LabelAudioOnly,
                filesize |-> PositiveOrNone(SizeOf(best_audio))])

\* re.search(r"-[01]$", format_id)
HasDupeSuffix(f) == EndsWith(f.format_id, <<"-", "0">>) \/ EndsWith(f.format_id, <<"-", "1">>)
NotDashOne(f) == ~EndsWith(f.format_id, <<"-", "1">>)

\* if has_tiktok_dupes: drop every combined descriptor whose id ends in "-1"
DropDupes(comb) ==
    IF \E i \in 1..Len(comb) : HasDupeSuffix(comb[i])
    THEN SelectSeq(comb, NotDashOne)
    ELSE comb

RECURSIVE GroupCombined(_, _)
\* the loop filling best_per_height: higher codec priority, then the higher bitrate
GroupCombined(fs, acc) ==
    IF fs = <<>> THEN acc
    ELSE LET f == Head(fs)
             h == Get0(f.height)
         IN  IF ~Truthy(h) THEN GroupCombined(Tail(fs), acc)
             ELSE IF h \notin DOMAIN acc THEN GroupCombined(Tail(fs), acc @@ (h :> f))
             ELSE LET prev == acc[h]
                      take == \/ _codec_priority(f) > _codec_priority(prev)
                              \/ /\ _codec_priority(f) = _codec_priority(prev)
                                 /\ VideoKey(f) > VideoKey(prev)
                  IN  GroupCombined(Tail(fs), IF take THEN [acc EXCEPT ![h] = f] ELSE acc)

\* the label of the representative `best` of height h on the combined path
CombinedLabel(best, h) ==
    LET width == Or(best.width, 0)
        is_portrait == h > width /\ width > 0
        from_id == _label_from_format_id(best.format_id)
    IN  IF from_id # NoLabel THEN from_id
        ELSE _height_to_label(IF is_portrait THEN width ELSE h)

\* best.get("ext", "mp4")
ExtOrMp4(f) == IF f.ext = NoneS THEN "mp4" ELSE f.ext

RECURSIVE EmitCombined(_, _, _)
\* the loop over sorted(best_per_height.keys(), reverse=True) on the combined path
EmitCombined(hs, by_h, out) ==
    IF hs = <<>> THEN out
    ELSE LET h == Head(hs)
             best == by_h[h]
         IN  EmitCombined(Tail(hs), by_h,
                 Append(out, [id |-> best.format_id,
                              ext |-> ExtOrMp4(best),
                              quality |-> CombinedLabel(best, h),
                              filesize |-> PositiveOrNone(SizeOf(best))]))

CombinedPath(raw) ==
    LET comb == DropDupes(combined(raw))
        best_per_height == GroupCombined(comb, EmptyMap)
    IN  Append(EmitCombined(SortedDesc(DOMAIN best_per_height), best_per_height, <<>>),
               [id |-> SelBestAudio,
                ext |-> "mp3",
                quality |-> LabelAudioOnly,
                filesize |-> None])

\* if not formats: formats = [fallback]
EmptyGuardOff(fs) == fs
EmptyGuard(fs) == IF fs = <<>> THEN <<Fallback>> ELSE fs

parse_formats(raw) ==
    IF raw = <<>> THEN <<Fallback>>
    ELSE EmptyGuard(IF use_dash(raw) THEN SplitPath(raw)
                    ELSE IF combined(raw) # <<>> THEN CombinedPath(raw)
                    ELSE <<>>)

\* ------------------------------------------------------------- inputs
\* all sequences over S of length 0..n
SeqsUpTo(S, n) == UNION {[1..k -> S] : k \in 0..n}

\* the identifier the extractor gives the i-th stream when the identifier itself
\* carries no information: "f1", "f2", ...
PlainId(i) == <<"f", CHOOSE c \in Digits : DigitVal(c) = i % 10>>

\* a stream descriptor as the extractor reports it
Desc(id, vc, ac, ext, h, w, tbr, abr, fs, fsa) ==
    [format_id |-> id, vcodec |-> vc, acodec |-> ac, ext |-> ext,
     height |-> h, width |-> w, tbr |-> tbr, vbr |-> None, abr |-> abr,
     filesize |-> fs, filesize_approx |-> fsa]

\* descriptors spanning every combination of the codec fields with an absent
\* and a positive height, audio bitrates where no codec and no height are
\* reported, and a second, lower height for each way a height can count
ClassifyShapes ==
    [vcodec : {NoneS, "none", "avc1"}, acodec : {NoneS, "none", "mp4a"},
     height : {None, 720}, abr : {None}]
    \cup [vcodec : {NoneS, "none"}, acodec : {NoneS, "none"},
          height : {None}, abr : {128}]
    \cup {[vcodec |-> c[1], acodec |-> c[2], height |-> 360, abr |-> None] :
              c \in {<<"avc1", "none">>, <<"avc1", "mp4a">>, <<NoneS, NoneS>>, <<"none", "none">>}}
ClassifyDesc(s, i) ==
    Desc(PlainId(i), s.vcodec, s.acodec, "mp4", s.height, None, None, s.abr, None, None)

\* ------------------------------------------------------------- idle values
InfoIdle ==
    [pc |-> "idle", url |-> {}, cookies_browser |-> "", platform |-> "",
     calls |-> <<>>, outcomes |-> <<>>, procs |-> <<>>,
     head |-> "none", response |-> "none", formats |-> <<>>]
DlIdle ==
    [pc |-> "idle", url |-> {}, cookies_browser |-> "", format_id |-> <<>>,
     flags |-> <<>>, cmd |-> [f |-> <<>>, extract_audio |-> FALSE],
     tmp_dir |-> "none", has_files |-> FALSE, proc |-> "none",
     response |-> "none", stream |-> "none"]

ParseIdle ==
    /\ raw_formats = <<>>
    /\ formats = <<>>
    /\ ppc = "idle"
LabelIdle ==
    /\ height = 0
    /\ label = NoLabel
    /\ lpc = "idle"

\* ------------------------------------------------------------- parse_formats as a step
InitClassify ==
    /\ \E shapes \in SeqsUpTo(ClassifyShapes, MaxFormats) :
           raw_formats = [i \in 1..Len(shapes) |-> ClassifyDesc(shapes[i], i)]
    /\ formats = <<>>
    /\ ppc = "input"
    /\ LabelIdle
    /\ info = InfoIdle
    /\ dl = DlIdle

Parse ==
    /\ ppc = "input"
    /\ formats' = parse_formats(raw_formats)
    /\ ppc' = "parsed"
    /\ UNCHANGED <<raw_formats, height, label, lpc, info, dl>>

\* video-only and audio-only descriptors spanning what the split path reads
SplitSizes == {<<None, None>>, <<100, None>>, <<None, 50>>}
SplitVideoShapes ==
    [kind : {"video"}, ext : {"mp4", "webm"}, height : {1000, 1080, 2160},
     rate : {None, 900}, size : SplitSizes]
SplitAudioShapes ==
    [kind : {"audio"}, ext : {"m4a", "webm"}, height : {None},
     rate : {None, 128}, size : SplitSizes]
SplitDesc(s, i) ==
    IF s.kind = "video"
    THEN Desc(PlainId(i), "avc1", "none", s.ext, s.height, None, s.rate, None, s.size[1], s.size[2])
    ELSE Desc(PlainId(i), "none", "mp4a", s.ext, None, None, None, s.rate, s.size[1], s.size[2])

InitSplit ==
    /\ \E shapes \in SeqsUpTo(SplitVideoShapes \cup SplitAudioShapes, MaxFormats) :
           raw_formats = [i \in 1..Len(shapes) |-> SplitDesc(shapes[i], i)]
    /\ formats = <<>>
    /\ ppc = "input"
    /\ LabelIdle
    /\ info = InfoIdle
    /\ dl = DlIdle

\* combined descriptors spanning what the combined path reads; the extractor
\* gives the streams of one list distinct identifiers
CombinedIds ==
    {<<"a", "-", "0">>, <<"a", "-", "1">>, <<"b", "-", "1">>,
     <<"v", "3", "6", "0", "p">>, <<"1", "0", "8", "0", "p">>}
CombinedCodecs == {<<"avc1", "mp4a">>, <<"hev1", "mp4a">>, <<NoneS, NoneS>>}
CombinedShapes ==
    [id : CombinedIds, codecs : CombinedCodecs, height : {720, 1000, 1080}, width : {None, 480}]
CombinedDesc(s) ==
    Desc(s.id, s.codecs[1], s.codecs[2], "mp4", s.height, s.width, None, None, None, None)
DistinctIds(shapes) ==
    \A i, j \in 1..Len(shapes) : i # j => shapes[i].id # shapes[j].id

InitCombined ==
    /\ \E shapes \in SeqsUpTo(CombinedShapes, MaxFormats) :
           /\ DistinctIds(shapes)
           /\ raw_formats = [i \in 1..Len(shapes) |-> CombinedDesc(shapes[i])]
    /\ formats = <<>>
    /\ ppc = "input"
    /\ LabelIdle
    /\ info = InfoIdle
    /\ dl = DlIdle

NextParse == Parse

SpecClassify == InitClassify /\ [][NextParse]_vars
SpecSplit == InitSplit /\ [][NextParse]_vars
SpecCombined == InitCombined /\ [][NextParse]_vars

\* ------------------------------------------------------------- claims on parse_formats
Last(s) == s[Len(s)]
\* the path a returned list came from, read off its trailing entry
PathTaken(fs) ==
    IF Last(fs).id = SelBestAudioM4a THEN "split"
    ELSE IF Last(fs).id = SelBestAudio THEN "combined"
    ELSE "fallback"

\* the classification as the data model words it
Present(c) == c # NoneS /\ c # "none"
Positive(x) == x # None /\ x > 0
DocVideoOnly(f) == Present(f.vcodec) /\ ~Present(f.acodec) /\ Positive(f.height)
DocAudioOnly(f) ==
    ~Present(f.vcodec) /\ ~Positive(f.height) /\ (Present(f.acodec) \/ Positive(f.abr))
DocCombined(f) == Present(f.vcodec) /\ Present(f.acodec) /\ Positive(f.height)
\* as amended: a descriptor whose two codecs are both unreported (null, not the
\* "none" sentinel) and whose height is positive is combined as well
DocCombinedOrMuxed(f) ==
    DocCombined(f) \/ (f.vcodec = NoneS /\ f.acodec = NoneS /\ Positive(f.height))

DocVideoIdx(raw) == {i \in 1..Len(raw) : DocVideoOnly(raw[i])}
DocAudioIdx(raw) == {i \in 1..Len(raw) : DocAudioOnly(raw[i])}
DocCombinedIdx(raw) == {i \in 1..Len(raw) : DocCombined(raw[i])}
DocCombinedOrMuxedIdx(raw) == {i \in 1..Len(raw) : DocCombinedOrMuxed(raw[i])}
DocMaxHeight(raw, I) == IF I = {} THEN 0 ELSE SetMax({raw[i].height : i \in I})
\* the path the selection rule names, C being the indices of the combined descriptors
DocPath(raw, C) ==
    LET V == DocVideoIdx(raw)
        A == DocAudioIdx(raw)
    IN  IF V # {} /\ A # {} /\ (C = {} \/ DocMaxHeight(raw, V) > DocMaxHeight(raw, C))
        THEN "split"
        ELSE IF C # {} THEN "combined"
        ELSE "fallback"

\* C3: parse_formats never returns an empty list, and returns exactly the
\* one-element fallback when raw_formats is empty or when neither the split
\* path nor the combined path is selected.
C3_NeverEmptyFallback ==
    ppc = "parsed" =>
        /\ formats # <<>>
        /\ (raw_formats = <<>> \/ (~use_dash(raw_formats) /\ combined(raw_formats) = <<>>))
               => formats = <<Fallback>>
\* a non-empty input none of whose descriptors classifies, answered by the fallback
C3_Witness ==
    /\ ppc = "parsed"
    /\ raw_formats # <<>>
    /\ formats = <<Fallback>>

\* C4 (as stated): the path taken is the one the three predicates of the data
\* model select; a descriptor with neither codec reported but a positive
\* height does not influence it.
C4_PathAsStated ==
    ppc = "parsed" => PathTaken(formats) = DocPath(raw_formats, DocCombinedIdx(raw_formats))
\* C4 (amended): the same with descriptors whose codecs are both unreported
\* (null) and whose height is positive counted as combined.
C4_PathAmended ==
    ppc = "parsed" => PathTaken(formats) = DocPath(raw_formats, DocCombinedOrMuxedIdx(raw_formats))
\* video-only, audio-only and a lower muxed stream together: the split path wins
C4_Witness ==
    /\ ppc = "parsed"
    /\ PathTaken(formats) = "split"
    /\ \E i \in 1..Len(raw_formats) : IsCombinedMuxed(raw_formats[i])

\* C1: for a non-empty raw_formats no two returned options carry the same
\* quality label.
C1_UniqueLabels ==
    (ppc = "parsed" /\ raw_formats # <<>>) =>
        \A i, j \in 1..Len(formats) : i # j => formats[i].quality # formats[j].quality

\* C2: the options run from the highest to the lowest pixel tier their labels
\* name, and "Audio only", when present, occurs once and last.
C2_DescendingAudioLast ==
    ppc = "parsed" =>
        LET audio == {i \in 1..Len(formats) : formats[i].quality = LabelAudioOnly}
        IN  /\ Cardinality(audio) <= 1
            /\ audio \subseteq {Len(formats)}
            /\ \A i, j \in (1..Len(formats)) \ audio :
                   i < j => formats[i].quality.n >= formats[j].quality.n

\* the size the data model calls known: exact preferred over approximate
DocSize(f) ==
    IF Positive(f.filesize) THEN f.filesize
    ELSE IF Positive(f.filesize_approx) THEN f.filesize_approx
    ELSE None
\* C5: on the split path a video option's filesize is the sum of the chosen
\* video size and the chosen audio size when both are known and positive, and
\* None otherwise.
C5_SplitSizeSum ==
    (ppc = "parsed" /\ PathTaken(formats) = "split") =>
        \A k \in 1..(Len(formats) - 1) :
            \E i, j \in 1..Len(raw_formats) :
                /\ formats[k].id = raw_formats[i].format_id \o <<"+">> \o raw_formats[j].format_id
                /\ formats[k].filesize =
                       IF Positive(DocSize(raw_formats[i])) /\ Positive(DocSize(raw_formats[j]))
                       THEN DocSize(raw_formats[i]) + DocSize(raw_formats[j])
                       ELSE None

Prefix(id) == SubSeq(id, 1, Len(id) - 2)
IsDashOne(id) == EndsWith(id, <<"-", "1">>)
\* the "-0" sibling of an identifier ending in "-1"
SiblingZero(id) == Prefix(id) \o <<"-", "0">>
\* C6: duplicate suppression drops a combined descriptor ending in "-1" only
\* when its "-0" sibling is there: with the sibling at the same height the
\* "-1" identifier is not offered, and without a sibling the descriptor's
\* height still has its video option.
C6_KeepFirstDuplicate ==
    (ppc = "parsed" /\ PathTaken(formats) = "combined") =>
        \A i \in 1..Len(raw_formats) :
            LET d == raw_formats[i]
                has_sibling == \E j \in 1..Len(raw_formats) :
                                   /\ DocCombinedOrMuxed(raw_formats[j])
                                   /\ raw_formats[j].format_id = SiblingZero(d.format_id)
            IN  (DocCombinedOrMuxed(d) /\ IsDashOne(d.format_id)) =>
                    IF has_sibling
                    THEN \A k \in 1..Len(formats) : formats[k].id # d.format_id
                    ELSE \E k \in 1..(Len(formats) - 1) :
                             \E j \in 1..Len(raw_formats) :
                                 /\ formats[k].id = raw_formats[j].format_id
                                 /\ raw_formats[j].height = d.height

\* ------------------------------------------------------------- _height_to_label as a step
InitLabel ==
    /\ height \in 0..MaxHeight
    /\ label = NoLabel
    /\ lpc = "input"
    /\ ParseIdle
    /\ info = InfoIdle
    /\ dl = DlIdle

ApplyLabel ==
    /\ lpc = "input"
    /\ label' = _height_to_label(height)
    /\ lpc' = "labelled"
    /\ UNCHANGED <<raw_formats, formats, ppc, height, info, dl>>

NextLabel == ApplyLabel

SpecLabel == InitLabel /\ [][NextLabel]_vars

Tiers == {QUALITY_HEIGHTS[i] : i \in 1..Len(QUALITY_HEIGHTS)}
\* the tiers within the 12% relative tolerance of h
Passing(h) == {t \in Tiers : 100 * Abs(h - t) <= 12 * t}
PLATFORM_PATTERNS ==
    << <<"youtube", {"youtube.com", "youtu.be"}>>,
       <<"tiktok", {"tiktok.com"}>>,
       <<"instagram", {"instagram.com"}>>,
       <<"twitter", {"twitter.com", "x.com"}>>,
       <<"facebook", {"facebook.com", "fb.com", "fb.watch"}>>,
       <<"reddit", {"reddit.com", "redd.it", "v.redd.it"}>>,
       <<"vimeo", {"vimeo.com"}>>,
       <<"soundcloud", {"soundcloud.com"}>>,
       <<"twitch", {"twitch.tv", "clips.twitch.tv"}>>,
       <<"pinterest", {"pinterest.com", "pin.it"}>>,
       <<"dailymotion", {"dailymotion.com"}>>,
       <<"bilibili", {"bilibili.com", "b23.tv"}>> >>

\* A URL is the set of domain strings that occur in its lower-cased text, which
\* is all detect_platform reads of it.
detect_platform(url) ==
    LET hits == {i \in 1..Len(PLATFORM_PATTERNS) : PLATFORM_PATTERNS[i][2] \cap url # {}}
    IN  IF hits = {} THEN "direct"
        ELSE PLATFORM_PATTERNS[CHOOSE i \in hits : \A j \in hits : i <= j][1]

YT_CLIENT == "android_vr"
COOKIE_PLATFORMS == {"tiktok", "instagram", "twitter", "facebook"}

\* cookies_browser is the COOKIES_BROWSER setting; "" disables cookies
build_ytdlp_flags(platform, cookies_browser) ==
    IF platform = "youtube" THEN <<"--extractor-args", "youtube:player_client=" \o YT_CLIENT>>
    ELSE IF platform \in COOKIE_PLATFORMS /\ cookies_browser # ""
         THEN <<"--cookies-from-browser", cookies_browser>>
    ELSE <<>>

Urls ==
    { {"youtube.com"}, {"youtu.be", "tiktok.com"}, {"tiktok.com"}, {"x.com"},
      {"vimeo.com"}, {} }
CookieSettings == {"chrome", ""}

\* ------------------------------------------------------------- /api/info
\* what one run of the extractor ends in, as _run_ytdlp_info tells them apart
ExtractorOutcomes == {"ok", "timeout", "nonzero", "empty", "malformed", "generic"}

\* the stream lists a successful extractor run may report
InfoFormatLists ==
    { <<>>,
      << Desc(<<"1", "3", "7">>, "avc1", "none", "mp4", 1080, 1920, None, None, None, None),
         Desc(<<"1", "4", "0">>, "none", "mp4a", "m4a", None, None, None, 128, None, None) >> }

\* the return value of _run_ytdlp_info: None unless the run succeeded with a
\* recognised extractor
RunResult(outcome) == IF outcome = "ok" THEN "info" ELSE "None"
\* the process a finished run leaves behind: proc.kill() on timeout
ProcAfter(outcome) == IF outcome = "timeout" THEN "killed" ELSE "exited"

\* info is None and "--cookies-from-browser" in flags
ShouldRetryAlways(result, flags) == result = "None"
ShouldRetry(result, flags) ==
    /\ result = "None"
    /\ \E i \in 1..Len(flags) : flags[i] = "--cookies-from-browser"

InfoStartState(url, cb) ==
    [pc |-> "start", url |-> url, cookies_browser |-> cb, platform |-> "",
     calls |-> <<>>, outcomes |-> <<>>, procs |-> <<>>,
     head |-> "none", response |-> "none", formats |-> <<>>]

InitInfo ==
    /\ \E url \in Urls, cb \in CookieSettings : info = InfoStartState(url, cb)
    /\ ParseIdle
    /\ LabelIdle
    /\ dl = DlIdle

\* get_info up to the first await: the first extractor run is started
InfoFirstRun ==
    /\ info.pc = "start"
    /\ LET platform == detect_platform(info.url)
           flags == build_ytdlp_flags(platform, info.cookies_browser)
       IN  info' = [info EXCEPT !.pc = "wait", !.platform = platform,
                                !.calls = <<flags>>, !.procs = <<"running">>]
    /\ UNCHANGED <<raw_formats, formats, ppc, height, label, lpc, dl>>

\* an extractor run ends and get_info continues to its next await or its return
InfoRunEnds ==
    /\ info.pc = "wait"
    /\ \E outcome \in ExtractorOutcomes, reported \in InfoFormatLists :
           LET n == Len(info.calls)
               result == RunResult(outcome)
               ended == [info EXCEPT !.outcomes = Append(@, outcome),
                                     !.procs[n] = ProcAfter(outcome)]
           IN  IF n = 1 /\ ShouldRetry(result, info.calls[1])
               THEN info' = [ended EXCEPT !.calls = Append(@, <<>>),
                                          !.procs = Append(@, "running")]
               ELSE IF result # "None"
               THEN info' = [ended EXCEPT !.pc = "done", !.response = "info",
                                          !.formats = parse_formats(reported)]
               ELSE info' = [ended EXCEPT !.pc = "head"]
    /\ UNCHANGED <<raw_formats, formats, ppc, height, label, lpc, dl>>

\* the HEAD probe of the direct-file fallback
InfoHeadProbe ==
    /\ info.pc = "head"
    /\ \E ok \in BOOLEAN :
           info' = IF ok
                   THEN [info EXCEPT !.pc = "done", !.head = "ok", !.response = "direct"]
                   ELSE [info EXCEPT !.pc = "done", !.head = "failed", !.response = "error400"]
    /\ UNCHANGED <<raw_formats, formats, ppc, height, label, lpc, dl>>

NextInfo == InfoFirstRun \/ InfoRunEnds \/ InfoHeadProbe

SpecInfo == InitInfo /\ [][NextInfo]_vars

\* ------------------------------------------------------------- claims on /api/info
UsedCookieFlags(flags) == flags # <<>> /\ flags[1] = "--cookies-from-browser"
\* the flags each platform calls for, as the orchestrator's description has them
DocFlags(url, cb) ==
    LET platform == detect_platform(url)
    IN  IF platform = "youtube" THEN <<"--extractor-args", "youtube:player_client=android_vr">>
        ELSE IF platform \in {"tiktok", "instagram", "twitter", "facebook"} /\ cb # ""
             THEN <<"--cookies-from-browser", cb>>
        ELSE <<>>

InfoTimeoutKills ==
    info.pc # "idle" =>
        \A i \in 1..Len(info.outcomes) : info.outcomes[i] = "timeout" => info.procs[i] = "killed"

\* ------------------------------------------------------------- /api/download
\* `sub in s` on Python strings
Contains(s, sub) ==
    \E i \in 1..(Len(s) - Len(sub) + 1) : SubSeq(s, i, i + Len(sub) - 1) = sub

StrDirect == <<"d", "i", "r", "e", "c", "t">>
StrBestAudioWord == <<"b", "e", "s", "t", "a", "u", "d", "i", "o">>
SelDefault == <<"b", "e", "s", "t", "v", "i", "d", "e", "o", "[", "e", "x", "t", "=", "m", "p", "4", "]", "+", "b", "e", "s", "t", "a", "u", "d", "i", "o", "[", "e", "x", "t", "=", "m", "4", "a", "]", "/", "b", "e", "s", "t", "[", "e", "x", "t", "=", "m", "p", "4", "]", "/", "b", "e", "s", "t">>

\* the -f argument and whether --extract-audio is passed; format_id <<>> stands
\* for None and for "", which the code treats alike
cmd_format(format_id) ==
    IF format_id # <<>> /\ Contains(format_id, StrBestAudioWord) /\ ~Contains(format_id, <<"+">>)
    THEN [f |-> format_id, extract_audio |-> TRUE]
    ELSE IF format_id # <<>> THEN [f |-> format_id, extract_audio |-> FALSE]
    ELSE [f |-> SelDefault, extract_audio |-> FALSE]

FormatIds ==
    {<<>>, StrDirect, <<"1", "3", "7", "+", "1", "4", "0">>, SelBestAudioM4a, SelBestAudio, SelBest}

DlStartState(url, cb, fid) ==
    [pc |-> "start", url |-> url, cookies_browser |-> cb, format_id |-> fid,
     flags |-> <<>>, cmd |-> [f |-> <<>>, extract_audio |-> FALSE],
     tmp_dir |-> "none", has_files |-> FALSE, proc |-> "none",
     response |-> "none", stream |-> "none"]

\* shutil.rmtree(tmp_dir, ignore_errors=True)
rmtree(d) == [d EXCEPT !.tmp_dir = "removed", !.has_files = FALSE]

InitDownload ==
    /\ \E url \in Urls, cb \in CookieSettings, fid \in FormatIds :
           dl = DlStartState(url, cb, fid)
    /\ ParseIdle
    /\ LabelIdle
    /\ info = InfoIdle

\* format_id == "direct": the passthrough response, no scratch directory
DlDirect ==
    /\ dl.pc = "start"
    /\ dl.format_id = StrDirect
    /\ dl' = [dl EXCEPT !.pc = "returned", !.response = "direct_stream"]
    /\ UNCHANGED <<raw_formats, formats, ppc, height, label, lpc, info>>

\* the scratch directory is made, the command built and the extractor started;
\* a failure to start it is caught by `except Exception`
DlSpawn ==
    /\ dl.pc = "start"
    /\ dl.format_id # StrDirect
    /\ \E started \in BOOLEAN :
           LET made == [dl EXCEPT !.tmp_dir = "exists",
                                  !.flags = build_ytdlp_flags(detect_platform(dl.url), dl.cookies_browser),
                                  !.cmd = cmd_format(dl.format_id)]
           IN  dl' = IF started
                     THEN [made EXCEPT !.pc = "waiting", !.proc = "running"]
                     ELSE [rmtree(made) EXCEPT !.pc = "returned", !.response = "error500"]
    /\ UNCHANGED <<raw_formats, formats, ppc, height, label, lpc, info>>

\* the extractor writes its output file under the scratch directory
ProcWrite ==
    /\ dl.proc = "running"
    /\ dl.tmp_dir = "exists"
    /\ ~dl.has_files
    /\ dl' = [dl EXCEPT !.has_files = TRUE]
    /\ UNCHANGED <<raw_formats, formats, ppc, height, label, lpc, info>>

\* the extractor exits on its own
ProcExit ==
    /\ dl.proc = "running"
    /\ \E rc \in {"exited0", "exited1"} : dl' = [dl EXCEPT !.proc = rc]
    /\ UNCHANGED <<raw_formats, formats, ppc, height, label, lpc, info>>

\* wait_for returns within the ceiling: the return-code check, the empty-result
\* check, then the streaming response is handed to the caller
DlWaitReturns ==
    /\ dl.pc = "waiting"
    /\ dl.proc \in {"exited0", "exited1"}
    /\ dl' = IF dl.proc # "exited0" \/ ~dl.has_files
             THEN [rmtree(dl) EXCEPT !.pc = "returned", !.response = "error500"]
             ELSE [dl EXCEPT !.pc = "returned", !.response = "stream", !.stream = "pending"]
    /\ UNCHANGED <<raw_formats, formats, ppc, height, label, lpc, info>>

\* the 300 s ceiling expires while the extractor runs: wait_for cancels
\* proc.communicate(), the handler removes the directory and raises 504
DlTimeout ==
    /\ dl.pc = "waiting"
    /\ dl.proc = "running"
    /\ dl' = [rmtree(dl) EXCEPT !.pc = "returned", !.response = "error504"]
    /\ UNCHANGED <<raw_formats, formats, ppc, height, label, lpc, info>>

\* the request task is cancelled while it awaits the extractor: CancelledError
\* is a BaseException, which none of the except clauses catches
DlCancelled ==
    /\ dl.pc = "waiting"
    /\ dl' = [dl EXCEPT !.pc = "returned", !.response = "cancelled"]
    /\ UNCHANGED <<raw_formats, formats, ppc, height, label, lpc, info>>

\* the server starts iterating file_stream(): the generator body is entered
StreamStart ==
    /\ dl.stream = "pending"
    /\ dl' = [dl EXCEPT !.stream = "reading"]
    /\ UNCHANGED <<raw_formats, formats, ppc, height, label, lpc, info>>

\* file_stream() reaches the end of the file, or is closed at a yield because
\* the caller went away: either way its finally clause runs
StreamEnds ==
    /\ dl.stream = "reading"
    /\ \E how \in {"done", "aborted"} : dl' = [rmtree(dl) EXCEPT !.stream = how]
    /\ UNCHANGED <<raw_formats, formats, ppc, height, label, lpc, info>>

\* the response is discarded before file_stream() was ever iterated: a
\* generator that never started runs no finally clause
StreamDropped ==
    /\ dl.stream = "pending"
    /\ dl' = [dl EXCEPT !.stream = "dropped"]
    /\ UNCHANGED <<raw_formats, formats, ppc, height, label, lpc, info>>

NextDownload ==
    \/ DlDirect
    \/ DlSpawn
    \/ ProcWrite
    \/ ProcExit
    \/ DlWaitReturns
    \/ DlTimeout
    \/ DlCancelled
    \/ StreamStart
    \/ StreamEnds
    \/ StreamDropped

SpecDownload == InitDownload /\ [][NextDownload]_vars

\* ------------------------------------------------------------- claims on /api/download
\* the request is over: an error went back, the request was cancelled, or the
\* returned stream was read to the end, aborted or never started
DlOver ==
    /\ dl.pc = "returned"
    /\ \/ dl.response \in {"error500", "error504", "cancelled"}
       \/ dl.response = "stream" /\ dl.stream \in {"done", "aborted", "dropped"}

\* C7: on the extractor path the scratch directory is gone on every exit path,
\* and on the failure paths before the error is returned.
C7_ScratchRemoved ==
    DlOver => dl.tmp_dir # "exists"

\* C9: once a request has returned its timeout outcome, the extractor process
\* it started is no longer running.
C9_TimeoutTerminates ==
    (dl.pc = "returned" /\ dl.response = "error504") => dl.proc # "running"
====
